---- MODULE Spec2Model ----
(***************************************************************************)
(* The two dashboards of the repository as one state machine.              *)
(*   app = 1 : src/2app.py          (Hidden Gems Finder)                   *)
(*   app = 2 : src/streamlit_app.py (Accessible Excellence Explorer)       *)
(* A run of a dashboard script is a sequence of steps: load_data, the      *)
(* except/stop handler, the sidebar widgets, the filter expression and the *)
(* rendering of map and tables.  The host re-runs the script from the top  *)
(* on every interaction; load_data is memoised by st.cache_data.           *)
(*                                                                         *)
(* Numbers are fixed-point: the value record Num(n) stands for n / Scale.  *)
(* Strings are tuples of one-character strings.                            *)
(***************************************************************************)
EXTENDS Integers, Sequences, FiniteSets, TLC

\* Bound of the model: the largest number of data rows of a source file.
MaxRows == 3

\* The divisor of convert_percentage; it is also the fixed-point unit.
Scale == 100

-----------------------------------------------------------------------------
(* Cell values of a dataframe *)

NaN == [t |-> "nan", v |-> 0, s |-> <<>>]
Num(n) == [t |-> "num", v |-> n, s |-> <<>>]
Str(x) == [t |-> "str", v |-> 0, s |-> x]
Raise(e) == [t |-> "raise", v |-> 0, s |-> <<e>>]

isna(value) == value.t = "nan"
isstr(value) == value.t = "str"
isnum(value) == value.t = "num"
raised(value) == value.t = "raise"

Digits == {"0", "1", "2", "3", "4", "5", "6", "7", "8", "9"}
DigitVal == [c \in Digits |->
    CASE c = "0" -> 0 [] c = "1" -> 1 [] c = "2" -> 2 [] c = "3" -> 3 [] c = "4" -> 4
      [] c = "5" -> 5 [] c = "6" -> 6 [] c = "7" -> 7 [] c = "8" -> 8 [] c = "9" -> 9]

SetMin(S) == CHOOSE x \in S : \A y \in S : x <= y
SetMax(S) == CHOOSE x \in S : \A y \in S : x >= y

RECURSIVE DecVal(_)
DecVal(s) == IF s = <<>> THEN 0
             ELSE DecVal(SubSeq(s, 1, Len(s) - 1)) * 10 + DigitVal[s[Len(s)]]

\* Python's float(str) on the characters the model's files use: digits with
\* at most one decimal point (two fractional digits are kept, the fixed-point
\* resolution); everything else is a ValueError.
float(s) ==
    LET dots == {i \in 1..Len(s) : s[i] = "."} IN
    IF \E i \in 1..Len(s) : s[i] \notin Digits \cup {"."} THEN Raise("ValueError")
    ELSE IF Cardinality(dots) > 1 THEN Raise("ValueError")
    ELSE IF dots = {} THEN
        IF Len(s) = 0 THEN Raise("ValueError") ELSE Num(DecVal(s) * Scale)
    ELSE LET p == CHOOSE i \in dots : TRUE
             ip == SubSeq(s, 1, p - 1)
             fp == SubSeq(s, p + 1, Len(s))
             frac == IF Len(fp) = 0 THEN 0
                     ELSE IF Len(fp) = 1 THEN DecVal(fp) * 10
                     ELSE DecVal(SubSeq(fp, 1, 2))
         IN IF Len(ip) + Len(fp) = 0 THEN Raise("ValueError")
            ELSE Num(DecVal(ip) * Scale + frac)

\* str.strip(c): leading and trailing occurrences of c removed.
strip(s, c) ==
    LET keep == {i \in 1..Len(s) : s[i] # c} IN
    IF keep = {} THEN <<>> ELSE SubSeq(s, SetMin(keep), SetMax(keep))

\* str.replace(c, ''): every occurrence of c removed.
replace(s, c) == SelectSeq(s, LAMBDA x : x # c)

-----------------------------------------------------------------------------
(* The per-value coercions of 2app.py *)

convert_percentage(value) ==
    IF isstr(value)
    THEN LET f == float(strip(value.s, "%")) IN
         IF raised(f) THEN f ELSE Num(f.v \div Scale)
    ELSE value

safe_float(value) ==
    IF isna(value) THEN NaN
    ELSE IF ~isstr(value) THEN NaN          \* AttributeError: no .replace
    ELSE LET f == float(replace(replace(value.s, "$"), ",")) IN
         IF raised(f) THEN NaN ELSE f       \* ValueError

\* pd.to_numeric(..., errors='coerce') on one value
to_numeric(value) ==
    IF isstr(value)
    THEN LET f == float(value.s) IN IF raised(f) THEN NaN ELSE f
    ELSE value

-----------------------------------------------------------------------------
(* Source files and pandas dataframes *)

\* A source file: [readable, columns, rows], rows a sequence of functions
\* from the header's column names to cell texts.
\* A dataframe: [columns, index, cell], index the sequence of row labels and
\* cell a function from row label to (column name -> value).

\* Cell texts pandas.read_csv reads as missing (its default na_values).
NaStrings == {<<>>, <<"N", "A">>}

Labels(df) == {df.index[k] : k \in 1..Len(df.index)}
Column(df, c) == {df.cell[i][c] : i \in Labels(df)}

\* read_csv's type inference: a column of a non-empty file whose cells are
\* all missing or numeric is a numeric column; any other column is an object
\* column of strings.
NumericText(file, c) ==
    /\ Len(file.rows) > 0
    /\ \A k \in 1..Len(file.rows) :
          file.rows[k][c] \in NaStrings \/ ~raised(float(file.rows[k][c]))

read_csv(file) ==
    [columns |-> file.columns,
     index   |-> [k \in 1..Len(file.rows) |-> k - 1],
     cell    |-> [i \in 0..(Len(file.rows) - 1) |->
                    [c \in file.columns |->
                        LET x == file.rows[i + 1][c] IN
                        IF x \in NaStrings THEN NaN
                        ELSE IF NumericText(file, c) THEN float(x)
                        ELSE Str(x)]]]

\* dtype of a column: object iff it holds a string or the frame is empty.
ObjectDtype(df, c) == df.index = <<>> \/ \E i \in Labels(df) : isstr(df.cell[i][c])

AnyRaised(df, c) == \E i \in Labels(df) : raised(df.cell[i][c])

\* df.rename(columns = mapping restricted to the columns present)
Rename(df, mapping) ==
    LET new(c) == IF c \in DOMAIN mapping THEN mapping[c] ELSE c
        old(d) == CHOOSE c \in df.columns : new(c) = d
        cols == {new(c) : c \in df.columns}
    IN [df EXCEPT !.columns = cols,
                  !.cell = [i \in DOMAIN df.cell |-> [d \in cols |-> df.cell[i][old(d)]]]]

\* df[mask]: the rows whose label is in keep, order and labels kept
Select(df, keep) ==
    LET idx == SelectSeq(df.index, LAMBDA i : i \in keep) IN
    [df EXCEPT !.index = idx,
               !.cell = [i \in {idx[k] : k \in 1..Len(idx)} |-> df.cell[i]]]

Public == <<"P", "u", "b", "l", "i", "c">>
Private == <<"P", "r", "i", "v", "a", "t", "e">>

\* df['Control'].map({1: 'Public', 2: 'Private'})
control_map(row) ==
    IF row["Control"] = Num(1 * Scale) THEN Str(Public)
    ELSE IF row["Control"] = Num(2 * Scale) THEN Str(Private)
    ELSE NaN

\* df['Institution Type'] = df['Control'].map(...)
WithInstitutionType(df) ==
    [df EXCEPT !.columns = df.columns \cup {"Institution Type"},
               !.cell = [i \in DOMAIN df.cell |->
                           [d \in df.columns \cup {"Institution Type"} |->
                               IF d = "Institution Type" THEN control_map(df.cell[i])
                               ELSE df.cell[i][d]]]]

Ok(df) == [ok |-> TRUE, df |-> df, exc |-> "none"]
\* the frame of a run that has none (df is unbound until load_data returns)
NoDf == [columns |-> {}, index |-> <<>>, cell |-> <<>>]
Exc(e) == [ok |-> FALSE, df |-> NoDf, exc |-> e]

-----------------------------------------------------------------------------
(* load_data of 2app.py *)

percentage_columns == {"Acceptance Rate 2022 (IPEDS)", "6 Year Grad Rate 2022 (IPEDS)",
                       "FTFT Grad Rate (6 Years) 2015-2016 Cohort (Bain)",
                       "Yield Rate 2022 (IPEDS)"}
cost_column == "Average net price over four years (Itkowitz)"
ratio_column == "Earnings-to-Price Ratio (Itzkowitz)"

column_mapping_1 ==
    [c \in {"Institution Name", "Acceptance Rate 2022 (IPEDS)", ratio_column,
            "6 Year Grad Rate 2022 (IPEDS)", "Control of institution (IPEDS)",
            "City location of institution (HD2022)", "State abbreviation (HD2022)",
            cost_column, "Yield Rate 2022 (IPEDS)"} |->
        CASE c = "Institution Name" -> "Name"
          [] c = "Acceptance Rate 2022 (IPEDS)" -> "Admission Rate"
          [] c = ratio_column -> "Earnings to Price Ratio"
          [] c = "6 Year Grad Rate 2022 (IPEDS)" -> "Graduation Rate"
          [] c = "Control of institution (IPEDS)" -> "Control"
          [] c = "City location of institution (HD2022)" -> "City"
          [] c = "State abbreviation (HD2022)" -> "State"
          [] c = cost_column -> "Four Year Cost"
          [] c = "Yield Rate 2022 (IPEDS)" -> "Yield Rate"]

ApplyPercentages(df) ==
    [df EXCEPT !.cell = [i \in DOMAIN df.cell |->
        [c \in df.columns |->
            IF c \in percentage_columns THEN convert_percentage(df.cell[i][c])
            ELSE df.cell[i][c]]]]

\* df[cost] = df[cost].apply(safe_float)
ApplyCost(df) ==
    [df EXCEPT !.cell = [i \in DOMAIN df.cell |->
        [df.cell[i] EXCEPT ![cost_column] = safe_float(@)]]]

\* df[ratio] = pd.to_numeric(df[ratio], errors='coerce')
ApplyRatio(df) ==
    [df EXCEPT !.cell = [i \in DOMAIN df.cell |->
        [df.cell[i] EXCEPT ![ratio_column] = to_numeric(@)]]]

load_data_1(file) ==
    IF ~file.readable THEN Exc("FileNotFoundError")
    ELSE
    LET df0 == read_csv(file)
        df1 == ApplyPercentages(df0)
        df2 == IF cost_column \in df1.columns THEN ApplyCost(df1)
               ELSE df1
        df3 == IF ratio_column \in df2.columns THEN ApplyRatio(df2)
               ELSE df2
        df4 == Rename(df3, column_mapping_1)
        df5 == WithInstitutionType(df4)
    IN IF \E c \in percentage_columns \cap df0.columns : AnyRaised(df1, c)
       THEN Exc("ValueError")
       ELSE IF "Control" \notin df4.columns THEN Exc("KeyError")
       ELSE IF "Earnings to Price Ratio" \notin df5.columns THEN Exc("KeyError")
       ELSE Ok(df5)

-----------------------------------------------------------------------------
(* load_data of streamlit_app.py *)

column_mapping_2 ==
    [c \in {"Institution Name", "City location of institution (HD2022)",
            "State abbreviation (HD2022)", "Control of institution (IPEDS)",
            "Fit Rating for Accessible Excellence List"} |->
        CASE c = "Institution Name" -> "Name"
          [] c = "City location of institution (HD2022)" -> "City"
          [] c = "State abbreviation (HD2022)" -> "State"
          [] c = "Control of institution (IPEDS)" -> "Control"
          [] c = "Fit Rating for Accessible Excellence List" -> "Fit Rating"]

load_data_2(file) ==
    IF ~file.readable THEN Exc("FileNotFoundError")
    ELSE
    LET df0 == read_csv(file)
        df1 == Rename(df0, column_mapping_2)
    IN IF "Control" \notin df1.columns THEN Exc("KeyError")
       ELSE Ok(WithInstitutionType(df1))

-----------------------------------------------------------------------------
(* The filter expressions *)

\* Series.between(lo, hi, inclusive='both') on one value; NaN compares false.
between_exclusive(value, lo, hi) == isnum(value) /\ lo < value.v /\ value.v < hi

between(value, lo, hi) == isnum(value) /\ lo <= value.v /\ value.v <= hi

lower(c) == CASE c = "A" -> "a" [] c = "B" -> "b" [] c = "C" -> "c" [] OTHER -> c

\* re.compile(pat) fails on an unterminated group.
re_error(pat) == \E j \in 1..Len(pat) : pat[j] = "("

\* re.search(pat, s, re.IGNORECASE) for patterns of letters and ".",
\* "." matching any character.
re_search(pat, s) ==
    \E k \in 0..(Len(s) - Len(pat)) :
        \A j \in 1..Len(pat) : pat[j] = "." \/ lower(pat[j]) = lower(s[k + j])

\* Series.str.contains(pat, case=False, na=False) on one value
str_contains(value, pat) == isstr(value) /\ re_search(pat, value.s)

\* Series.isin(values) on one value (pandas matches NaN with NaN)
isin(value, values) == value \in values

\* The exception the filter expression of 2app.py raises, "none" if none.
filter_error_1(d, term) ==
    IF {"Admission Rate", "Graduation Rate", "Earnings to Price Ratio", "Name"}
           \ d.columns # {} THEN "KeyError"
    ELSE IF ~ObjectDtype(d, "Name") THEN "AttributeError"
    ELSE IF re_error(term) THEN "re.error"
    ELSE "none"

ratio_mask_no_isna(row, ratio) ==
    between(row["Earnings to Price Ratio"], ratio[1], ratio[2])

ratio_mask(row, ratio) ==
    \/ between(row["Earnings to Price Ratio"], ratio[1], ratio[2])
    \/ isna(row["Earnings to Price Ratio"])

rate_mask_exclusive(row, col, range) == between_exclusive(row[col], range[1], range[2])

rate_mask(row, col, range) == between(row[col], range[1], range[2])

name_mask(row, term) == str_contains(row["Name"], term)

mask_1(row, admission, graduation, ratio, term) ==
    /\ rate_mask(row, "Admission Rate", admission)
    /\ rate_mask(row, "Graduation Rate", graduation)
    /\ ratio_mask(row, ratio)
    /\ name_mask(row, term)

filter_1(d, admission, graduation, ratio, term) ==
    Select(d, {i \in Labels(d) : mask_1(d.cell[i], admission, graduation, ratio, term)})

\* df[~df.index.isin(filtered_df.index)]
filtered_out_positional(d, f) ==
    Select(d, {i \in Labels(d) : i \notin 0..(Len(f.index) - 1)})

filtered_out(d, f) == Select(d, {i \in Labels(d) : i \notin Labels(f)})

\* The exception the filter expression of streamlit_app.py raises.
filter_error_2(d, term) ==
    IF {"Fit Rating", "Institution Type", "Name"} \ d.columns # {} THEN "KeyError"
    ELSE IF ~ObjectDtype(d, "Name") THEN "AttributeError"
    ELSE IF re_error(term) THEN "re.error"
    ELSE "none"

mask_2(row, ratings, types, term) ==
    /\ isin(row["Fit Rating"], ratings)
    /\ isin(row["Institution Type"], types)
    /\ name_mask(row, term)

filter_2_always_isin(d, ratings, types, states, term) ==
    Select(d, {i \in Labels(d) : mask_2(d.cell[i], ratings, types, term)
                                  /\ isin(d.cell[i]["State"], states)})

filter_2(d, ratings, types, states, term) ==
    LET f == Select(d, {i \in Labels(d) : mask_2(d.cell[i], ratings, types, term)}) IN
    IF states # {} THEN Select(f, {i \in Labels(f) : isin(f.cell[i]["State"], states)})
    ELSE f

\* sorted(df['State'].unique()) raises TypeError on a mix of NaN and strings.
sorted_error(values) ==
    (\E x \in values : isna(x)) /\ (\E x \in values : isstr(x))

-----------------------------------------------------------------------------
(* The earnings-ratio slider of 2app.py *)

RatioCap == 10 * Scale
default_ratio == <<0, 2 * Scale>>

earnings_ratio_values(d) ==
    {x.v : x \in {y \in Column(d, "Earnings to Price Ratio") : ~isna(y)}}

\* (earnings_ratio_min, earnings_ratio_max), or the default range
slider_bounds(d) ==
    LET vals == earnings_ratio_values(d) IN
    IF vals # {}
    THEN <<SetMin(vals), IF SetMax(vals) < RatioCap THEN SetMax(vals) ELSE RatioCap>>
    ELSE default_ratio

-----------------------------------------------------------------------------
(* The source files the model is checked on *)

Columns1 == {"Institution Name", "Acceptance Rate 2022 (IPEDS)",
             "6 Year Grad Rate 2022 (IPEDS)",
             "FTFT Grad Rate (6 Years) 2015-2016 Cohort (Bain)",
             "Yield Rate 2022 (IPEDS)", cost_column, ratio_column,
             "Control of institution (IPEDS)", "City location of institution (HD2022)",
             "State abbreviation (HD2022)", "Latitude", "Longitude"}

GemsRow(name, acc, grad, cost, ratio, control, state, lat) ==
    [c \in Columns1 |->
        CASE c = "Institution Name" -> name
          [] c = "Acceptance Rate 2022 (IPEDS)" -> acc
          [] c = "6 Year Grad Rate 2022 (IPEDS)" -> grad
          [] c = "FTFT Grad Rate (6 Years) 2015-2016 Cohort (Bain)" -> grad
          [] c = "Yield Rate 2022 (IPEDS)" -> <<"2", "0", "%">>
          [] c = cost_column -> cost
          [] c = ratio_column -> ratio
          [] c = "Control of institution (IPEDS)" -> control
          [] c = "City location of institution (HD2022)" -> <<"c">>
          [] c = "State abbreviation (HD2022)" -> state
          [] c = "Latitude" -> lat
          [] c = "Longitude" -> <<"7", "5">>]

\* name, acceptance, graduation, cost, ratio, control, state, latitude
GemsRows == {
    GemsRow(<<"A", "b">>, <<"3", "0", "%">>, <<"3", "0", "%">>,
            <<"$", "1", "2", ",", "3", "4", "5">>, <<"T", "B", "D">>, <<"1">>, <<"P", "A">>,
            <<"4", "0">>),
    GemsRow(<<"c", "a">>, <<"6", "0", "%">>, <<"1", "0", "0", "%">>,
            <<"$", "0">>, <<"1", ".", "5">>, <<"2">>, <<"N", "Y">>, <<>>),
    GemsRow(<<>>, <<"9", "0", "%">>, <<"8", "5", "%">>,
            <<"T", "B", "D">>, <<"1", "2">>, <<"9">>, <<"P", "A">>, <<"4", "1">>),
    GemsRow(<<"a", ".", "b">>, <<>>, <<"1">>,
            <<"1", "2", "0", "0">>, <<"3">>, <<"1">>, <<>>, <<"4", "2">>),
    GemsRow(<<"B">>, <<"T", "B", "D">>, <<"6", "0", "%">>,
            <<"$", "5">>, <<"T", "B", "D">>, <<"2">>, <<"N", "Y">>, <<"4", "0">>) }

Columns2 == {"Institution Name", "City location of institution (HD2022)",
             "State abbreviation (HD2022)", "Control of institution (IPEDS)",
             "Fit Rating for Accessible Excellence List", "Latitude", "Longitude"}

ExcellenceRow(name, state, control, fit, lat) ==
    [c \in Columns2 |->
        CASE c = "Institution Name" -> name
          [] c = "City location of institution (HD2022)" -> <<"c">>
          [] c = "State abbreviation (HD2022)" -> state
          [] c = "Control of institution (IPEDS)" -> control
          [] c = "Fit Rating for Accessible Excellence List" -> fit
          [] c = "Latitude" -> lat
          [] c = "Longitude" -> <<"7", "5">>]

ExcellenceRows == {
    ExcellenceRow(<<"A", "b">>, <<"P", "A">>, <<"1">>, <<"*", "*", "*">>, <<"4", "0">>),
    ExcellenceRow(<<"c", "a">>, <<"N", "Y">>, <<"2">>, <<"*", "*", "o">>, <<>>),
    ExcellenceRow(<<>>, <<"P", "A">>, <<"9">>, <<"*", "o", "o">>, <<"4", "1">>),
    ExcellenceRow(<<"a", ".", "b">>, <<>>, <<"2">>, <<>>, <<"4", "2">>) }

SeqsUpTo(S, n) == UNION {[1..k -> S] : k \in 0..n}

CsvFile(cols, rows) == [readable |-> TRUE, columns |-> cols, rows |-> rows]
Unreadable == [readable |-> FALSE, columns |-> {}, rows |-> <<>>]

DropColumn(file, c) ==
    [file EXCEPT !.columns = file.columns \ {c},
                 !.rows = [k \in DOMAIN file.rows |->
                              [d \in file.columns \ {c} |-> file.rows[k][d]]]]

\* The columns load_data names.
Designated1 == percentage_columns \cup DOMAIN column_mapping_1
Designated2 == DOMAIN column_mapping_2

\* A file with every column and rows that load without a per-value failure,
\* from which one column at a time is removed.
Base1 == CsvFile(Columns1, <<
    GemsRow(<<"A", "b">>, <<"3", "0", "%">>, <<"3", "0", "%">>,
            <<"$", "1", "2", ",", "3", "4", "5">>, <<"T", "B", "D">>, <<"1">>, <<"P", "A">>,
            <<"4", "0">>),
    GemsRow(<<"c", "a">>, <<"6", "0", "%">>, <<"1", "0", "0", "%">>,
            <<"$", "0">>, <<"1", ".", "5">>, <<"2">>, <<"N", "Y">>, <<>>) >>)
Base2 == CsvFile(Columns2, <<
    ExcellenceRow(<<"A", "b">>, <<"P", "A">>, <<"1">>, <<"*", "*", "*">>, <<"4", "0">>),
    ExcellenceRow(<<"c", "a">>, <<"N", "Y">>, <<"2">>, <<"*", "*", "o">>, <<>>) >>)

Files1 == {CsvFile(Columns1, r) : r \in SeqsUpTo(GemsRows, MaxRows)}
            \cup {DropColumn(Base1, c) : c \in Designated1} \cup {Unreadable}
Files2 == {CsvFile(Columns2, r) : r \in SeqsUpTo(ExcellenceRows, MaxRows)}
            \cup {DropColumn(Base2, c) : c \in Designated2} \cup {Unreadable}

\* Widget inputs
RateStops == {0, 30, Scale}
RatioStops == {2 * Scale}
SearchTerms == {<<>>, <<"B">>, <<"a", ".">>, <<"(">>}
RangesOver(S) == {r \in S \X S : r[1] <= r[2]}
Choices(S) == {S, {}} \cup {{x} : x \in S}

-----------------------------------------------------------------------------
(* State *)

VARIABLES app, file, cache, pc, err, df,
          admission_rate, graduation_rate, ratio_range, earnings_ratio, search_term,
          selected_ratings, selected_types, selected_states,
          filtered_df, filtered_out_df, shown

widgets == <<admission_rate, graduation_rate, ratio_range, earnings_ratio, search_term,
             selected_ratings, selected_types, selected_states>>
vars == <<app, file, cache, pc, err, df, widgets, filtered_df, filtered_out_df, shown>>

NoErr == [at |-> "none", exc |-> "none"]

\* The script's variables at the top of a run.
RunStart ==
    /\ pc = "load"
    /\ err = NoErr
    /\ df = NoDf
    /\ admission_rate = <<0, 0>>
    /\ graduation_rate = <<0, 0>>
    /\ ratio_range = <<0, 0>>
    /\ earnings_ratio = <<0, 0>>
    /\ search_term = <<>>
    /\ selected_ratings = {}
    /\ selected_types = {}
    /\ selected_states = {}
    /\ filtered_df = NoDf
    /\ filtered_out_df = NoDf
    /\ shown = {}

Init ==
    /\ \/ app = 1 /\ file \in Files1
       \/ app = 2 /\ file \in Files2
    /\ cache = [hit |-> FALSE, df |-> NoDf]
    /\ RunStart

load_data(a, f) == IF a = 1 THEN load_data_1(f) ELSE load_data_2(f)

Crash(at, exc) ==
    /\ pc' = "crashed"
    /\ err' = [at |-> at, exc |-> exc]

-----------------------------------------------------------------------------
(* Steps of a run *)

\* df = load_data(), first call: the body runs and its result is memoised
LoadData ==
    /\ pc = "load" /\ ~cache.hit
    /\ load_data(app, file).ok
    /\ df' = load_data(app, file).df
    /\ cache' = [hit |-> TRUE, df |-> load_data(app, file).df]
    /\ pc' = "widgets"
    /\ UNCHANGED <<app, file, err, widgets, filtered_df, filtered_out_df, shown>>

\* df = load_data(), memoised result
LoadDataCached ==
    /\ pc = "load" /\ cache.hit
    /\ df' = cache.df
    /\ pc' = "widgets"
    /\ UNCHANGED <<app, file, cache, err, widgets, filtered_df, filtered_out_df, shown>>

\* load_data() raises: control passes to the except clause
LoadDataRaises ==
    /\ pc = "load" /\ ~cache.hit
    /\ ~load_data(app, file).ok
    /\ err' = [at |-> "load_data", exc |-> load_data(app, file).exc]
    /\ pc' = "except"
    /\ UNCHANGED <<app, file, cache, df, widgets, filtered_df, filtered_out_df, shown>>

ReportErrorAndContinue ==
    /\ pc = "except"
    /\ shown' = shown \cup {"error"}
    /\ pc' = "widgets"
    /\ UNCHANGED <<app, file, cache, err, df, widgets, filtered_df, filtered_out_df>>

\* except Exception as e: st.error(...); st.stop()
ReportError ==
    /\ pc = "except"
    /\ shown' = shown \cup {"error"}
    /\ pc' = "stopped"
    /\ UNCHANGED <<app, file, cache, err, df, widgets, filtered_df, filtered_out_df>>

main_columns_1 == {"Name", "City", "State", "Institution Type", "Admission Rate",
                   "Earnings to Price Ratio", "Graduation Rate", "Four Year Cost",
                   "Yield Rate"}
main_columns_2 == {"Name", "City", "State", "Institution Type", "Fit Rating"}

\* The selectable ranges of the earnings-ratio slider with bounds b.
RatioRanges(b) ==
    RangesOver({b[1], b[2]} \cup {x \in RatioStops : b[1] <= x /\ x <= b[2]})

\* The range the slider offers for the bounds b it is handed. Bounds in
\* reverse order are not a range: depending on its version the host library
\* rejects them (Widgets1Raises) or puts them in order.
Offered(b) == IF b[1] <= b[2] THEN b ELSE <<b[2], b[1]>>

\* 2app.py: the sliders and the search box
Widgets1 ==
    /\ pc = "widgets" /\ app = 1
    /\ admission_rate' \in RangesOver(RateStops)
    /\ graduation_rate' \in RangesOver(RateStops)
    /\ ratio_range' = slider_bounds(df)
    /\ IF earnings_ratio_values(df) # {}
       THEN /\ earnings_ratio' \in RatioRanges(Offered(slider_bounds(df)))
            /\ shown' = shown
       ELSE /\ earnings_ratio' = default_ratio
            /\ shown' = shown \cup {"warning"}
    /\ search_term' \in SearchTerms
    /\ pc' = "filter"
    /\ UNCHANGED <<app, file, cache, err, df, selected_ratings, selected_types,
                   selected_states, filtered_df, filtered_out_df>>

\* 2app.py: st.sidebar.slider rejects a minimum above the maximum
Widgets1Raises ==
    /\ pc = "widgets" /\ app = 1
    /\ slider_bounds(df)[1] > slider_bounds(df)[2]
    /\ admission_rate' \in RangesOver(RateStops)
    /\ graduation_rate' \in RangesOver(RateStops)
    /\ ratio_range' = slider_bounds(df)
    /\ Crash("slider", "StreamlitAPIException")
    /\ UNCHANGED <<app, file, cache, df, earnings_ratio, search_term, selected_ratings,
                   selected_types, selected_states, filtered_df, filtered_out_df, shown>>

\* 2app.py: filtered_df = df[...]
Filter1 ==
    /\ pc = "filter" /\ app = 1
    /\ filter_error_1(df, search_term) = "none"
    /\ filtered_df' = filter_1(df, admission_rate, graduation_rate, earnings_ratio,
                               search_term)
    /\ pc' = "show"
    /\ UNCHANGED <<app, file, cache, err, df, widgets, filtered_out_df, shown>>

Filter1Raises ==
    /\ pc = "filter" /\ app = 1
    /\ filter_error_1(df, search_term) # "none"
    /\ Crash("filter", filter_error_1(df, search_term))
    /\ UNCHANGED <<app, file, cache, df, widgets, filtered_df, filtered_out_df, shown>>

\* 2app.py: the map, the main table and the table of filtered-out colleges
Display1 ==
    /\ pc = "show" /\ app = 1
    /\ main_columns_1 \cup {"Latitude", "Longitude"} \subseteq df.columns
    /\ \E show_map \in BOOLEAN :
          shown' = shown \cup {"table", "filtered_out"}
                     \cup (IF show_map /\ filtered_df.index # <<>> THEN {"map"}
                           ELSE IF show_map THEN {"no_colleges"} ELSE {})
    /\ filtered_out_df' = filtered_out(df, filtered_df)
    /\ pc' = "done"
    /\ UNCHANGED <<app, file, cache, err, df, widgets, filtered_df>>

\* 2app.py: a column of the map or of the tables is missing
Display1Raises ==
    /\ pc = "show" /\ app = 1
    /\ \E show_map \in BOOLEAN :
          LET mapped == show_map /\ filtered_df.index # <<>> IN
          \/ /\ mapped
             /\ ~(main_columns_1 \cup {"Latitude", "Longitude"} \subseteq df.columns)
             /\ shown' = shown
          \/ /\ ~mapped
             /\ ~(main_columns_1 \subseteq df.columns)
             /\ shown' = shown \cup (IF show_map THEN {"no_colleges"} ELSE {})
    /\ Crash("display", "KeyError")
    /\ UNCHANGED <<app, file, cache, df, widgets, filtered_df, filtered_out_df>>

\* The exception the sidebar of streamlit_app.py raises, "none" if none.
widgets_error_2(d) ==
    IF {"Fit Rating", "State"} \ d.columns # {} THEN "KeyError"
    ELSE IF sorted_error(Column(d, "State")) THEN "TypeError"
    ELSE "none"

\* streamlit_app.py: the multiselects and the search box
Widgets2 ==
    /\ pc = "widgets" /\ app = 2
    /\ widgets_error_2(df) = "none"
    /\ selected_ratings' \in Choices(Column(df, "Fit Rating"))
    /\ selected_types' \in Choices(Column(df, "Institution Type"))
    /\ selected_states' \in Choices(Column(df, "State"))
    /\ search_term' \in SearchTerms
    /\ pc' = "filter"
    /\ UNCHANGED <<app, file, cache, err, df, admission_rate, graduation_rate,
                   ratio_range, earnings_ratio, filtered_df, filtered_out_df, shown>>

Widgets2Raises ==
    /\ pc = "widgets" /\ app = 2
    /\ widgets_error_2(df) # "none"
    /\ Crash("widgets", widgets_error_2(df))
    /\ UNCHANGED <<app, file, cache, df, widgets, filtered_df, filtered_out_df, shown>>

\* streamlit_app.py: filtered_df = df[...], then the state restriction
Filter2 ==
    /\ pc = "filter" /\ app = 2
    /\ filter_error_2(df, search_term) = "none"
    /\ filtered_df' = filter_2(df, selected_ratings, selected_types, selected_states,
                               search_term)
    /\ pc' = "show"
    /\ UNCHANGED <<app, file, cache, err, df, widgets, filtered_out_df, shown>>

Filter2Raises ==
    /\ pc = "filter" /\ app = 2
    /\ filter_error_2(df, search_term) # "none"
    /\ Crash("filter", filter_error_2(df, search_term))
    /\ UNCHANGED <<app, file, cache, df, widgets, filtered_df, filtered_out_df, shown>>

\* streamlit_app.py: the map and the table
Display2 ==
    /\ pc = "show" /\ app = 2
    /\ main_columns_2 \cup {"Latitude", "Longitude"} \subseteq df.columns
    /\ shown' = shown \cup {"map", "table"}
    /\ pc' = "done"
    /\ UNCHANGED <<app, file, cache, err, df, widgets, filtered_df, filtered_out_df>>

Display2Raises ==
    /\ pc = "show" /\ app = 2
    /\ ~(main_columns_2 \cup {"Latitude", "Longitude"} \subseteq df.columns)
    /\ Crash("display", "KeyError")
    /\ UNCHANGED <<app, file, cache, df, widgets, filtered_df, filtered_out_df, shown>>

\* The host runs the script again from the top (an interaction, or a manual
\* rerun after a halted run); only the memoised load_data survives.
Rerun ==
    /\ pc \in {"done", "stopped", "crashed"}
    /\ pc' = "load"
    /\ err' = NoErr
    /\ df' = NoDf
    /\ admission_rate' = <<0, 0>>
    /\ graduation_rate' = <<0, 0>>
    /\ ratio_range' = <<0, 0>>
    /\ earnings_ratio' = <<0, 0>>
    /\ search_term' = <<>>
    /\ selected_ratings' = {}
    /\ selected_types' = {}
    /\ selected_states' = {}
    /\ filtered_df' = NoDf
    /\ filtered_out_df' = NoDf
    /\ shown' = {}
    /\ UNCHANGED <<app, file, cache>>

Next ==
    \/ LoadData \/ LoadDataCached \/ LoadDataRaises \/ ReportError
    \/ Widgets1 \/ Widgets1Raises \/ Filter1 \/ Filter1Raises
    \/ Display1 \/ Display1Raises
    \/ Widgets2 \/ Widgets2Raises \/ Filter2 \/ Filter2Raises
    \/ Display2 \/ Display2Raises
    \/ Rerun

Spec == Init /\ [][Next]_vars

-----------------------------------------------------------------------------
(* Properties *)

\* The filter expression of this run has been evaluated.
Filtered == pc \in {"show", "done"}

Cell(i, c) == df.cell[i][c]

\* What the filters are specified to test, stated on the normalized values.
InRange(value, range) == value.t = "num" /\ range[1] <= value.v /\ value.v <= range[2]
AdmissionPasses(i) == InRange(Cell(i, "Admission Rate"), admission_rate)
GraduationPasses(i) == InRange(Cell(i, "Graduation Rate"), graduation_rate)
RatioPasses(i) ==
    \/ Cell(i, "Earnings to Price Ratio") = NaN
    \/ InRange(Cell(i, "Earnings to Price Ratio"), earnings_ratio)
ContainsIgnoringCase(term, s) ==
    \E k \in 0..(Len(s) - Len(term)) :
        \A j \in 1..Len(term) : lower(term[j]) = lower(s[k + j])
NamePasses(i) ==
    Cell(i, "Name").t = "str" /\ ContainsIgnoringCase(search_term, Cell(i, "Name").s)
CategoriesPass(i) ==
    /\ Cell(i, "Fit Rating") \in selected_ratings
    /\ Cell(i, "Institution Type") \in selected_types
StatePasses(i) == selected_states = {} \/ Cell(i, "State") \in selected_states

\* C1: in dashboard 1 the matched rows and the filtered-out rows partition the
\* full table: every row of df is in exactly one of filtered_df and
\* filtered_out_df, with its values unchanged.
C1_Partition ==
    (app = 1 /\ pc = "done") =>
        /\ Labels(filtered_df) \cup Labels(filtered_out_df) = Labels(df)
        /\ Labels(filtered_df) \cap Labels(filtered_out_df) = {}
        /\ Len(filtered_df.index) + Len(filtered_out_df.index) = Len(df.index)
        /\ \A i \in Labels(filtered_df) : filtered_df.cell[i] = df.cell[i]
        /\ \A i \in Labels(filtered_out_df) : filtered_out_df.cell[i] = df.cell[i]

C1_Witness ==
    /\ app = 1 /\ pc = "done"
    /\ Len(df.index) = 3
    /\ Len(filtered_df.index) = 1
    /\ filtered_df.index # <<0>>
    /\ Len(filtered_out_df.index) = 2

\* C2: percentage and currency coercion never raise: once load_data has run
\* on a readable file, no ValueError has aborted it, and every unparseable
\* percentage or cost text is the missing-value marker in the table.
C2_ParsingNeverRaises ==
    (app = 1 /\ pc # "load" /\ file.readable) =>
        /\ ~(err.at = "load_data" /\ err.exc = "ValueError")
        /\ err.at # "load_data" =>
              \A i \in Labels(cache.df) :
                 \A c \in (percentage_columns \cup {cost_column}) \cap file.columns :
                    LET raw == read_csv(file).cell[i][c]
                        text == IF c = cost_column
                                THEN replace(replace(raw.s, "$"), ",")
                                ELSE strip(raw.s, "%")
                        name == IF c \in DOMAIN column_mapping_1
                                THEN column_mapping_1[c] ELSE c
                    IN (raw.t = "str" /\ float(text).t = "raise")
                          => cache.df.cell[i][name] = NaN

\* C3: normalizing a readable file that lacks a designated column completes
\* without error.
C3_AbsentColumnSkipped ==
    (/\ pc # "load"
     /\ file.readable
     /\ (IF app = 1 THEN Designated1 ELSE Designated2) \ file.columns # {})
        => err.at # "load_data"

\* C4: in dashboard 1 a row that passes the other three constraints is matched
\* iff its Earnings to Price Ratio is missing or lies in the selected range,
\* bounds included.
C4_RatioConstraint ==
    (app = 1 /\ Filtered) =>
        \A i \in Labels(df) :
            i \in Labels(filtered_df) <=>
                /\ rate_mask(df.cell[i], "Admission Rate", admission_rate)
                /\ rate_mask(df.cell[i], "Graduation Rate", graduation_rate)
                /\ name_mask(df.cell[i], search_term)
                /\ RatioPasses(i)

C4_Witness ==
    /\ app = 1 /\ Filtered
    /\ \E i \in Labels(filtered_df) : Cell(i, "Earnings to Price Ratio") = NaN
    /\ \E i \in Labels(df) \ Labels(filtered_df) :
          /\ Cell(i, "Earnings to Price Ratio").t = "num"
          /\ Cell(i, "Earnings to Price Ratio").v < earnings_ratio[1]
          /\ rate_mask(df.cell[i], "Admission Rate", admission_rate)
          /\ rate_mask(df.cell[i], "Graduation Rate", graduation_rate)
          /\ name_mask(df.cell[i], search_term)

\* C5: in dashboard 1 a row that passes the ratio and name constraints is
\* matched iff its Admission Rate and its Graduation Rate are present and lie
\* in their selected ranges, bounds included; a missing rate is never matched.
C5_RateConstraints ==
    (app = 1 /\ Filtered) =>
        \A i \in Labels(df) :
            i \in Labels(filtered_df) <=>
                /\ AdmissionPasses(i)
                /\ GraduationPasses(i)
                /\ ratio_mask(df.cell[i], earnings_ratio)
                /\ name_mask(df.cell[i], search_term)

C5_Witness ==
    /\ app = 1 /\ Filtered
    /\ admission_rate[1] < admission_rate[2]
    /\ \E i \in Labels(filtered_df) : Cell(i, "Admission Rate") = Num(admission_rate[1])
    /\ \E i \in Labels(filtered_df) : Cell(i, "Graduation Rate") = Num(graduation_rate[2])
    /\ \E i \in Labels(df) \ Labels(filtered_df) :
          /\ Cell(i, "Admission Rate") = NaN
          /\ GraduationPasses(i)
          /\ ratio_mask(df.cell[i], earnings_ratio)
          /\ name_mask(df.cell[i], search_term)

\* C6: in dashboard 2 the matched rows are, for an empty selection of states,
\* the rows that satisfy the fit-rating, institution-type and name
\* constraints whatever their State, and for a non-empty selection those of
\* them whose State is selected.
C6_StateSelection ==
    (app = 2 /\ Filtered) =>
        Labels(filtered_df) =
            IF selected_states = {}
            THEN {i \in Labels(df) :
                     CategoriesPass(i) /\ name_mask(df.cell[i], search_term)}
            ELSE {i \in Labels(df) :
                     /\ CategoriesPass(i) /\ name_mask(df.cell[i], search_term)
                     /\ Cell(i, "State") \in selected_states}

C6_Witness ==
    /\ app = 2 /\ Filtered
    /\ selected_states = {}
    /\ \E i, j \in Labels(filtered_df) : Cell(i, "State") # Cell(j, "State")

\* C7: in both dashboards a row that passes the other constraints is matched
\* iff its Name is present and contains the search term as a substring,
\* ignoring case.
C7_SubstringSearch ==
    Filtered =>
        \A i \in Labels(df) :
            i \in Labels(filtered_df) <=>
                /\ NamePasses(i)
                /\ IF app = 1
                   THEN AdmissionPasses(i) /\ GraduationPasses(i) /\ RatioPasses(i)
                   ELSE CategoriesPass(i) /\ StatePasses(i)

\* C8: a run in which load_data failed has reported the error once it has
\* halted, and has evaluated no widget and no filter and rendered no map or
\* table.
C8_LoadFailureHalts ==
    err.at = "load_data" =>
        /\ pc \in {"except", "stopped"}
        /\ pc = "stopped" => "error" \in shown
        /\ shown \subseteq {"error"}
        /\ df = NoDf /\ filtered_df = NoDf /\ filtered_out_df = NoDf
        /\ search_term = <<>> /\ admission_rate = <<0, 0>> /\ selected_ratings = {}

C8_Witness ==
    /\ pc = "stopped"
    /\ err = [at |-> "load_data", exc |-> "FileNotFoundError"]
    /\ shown = {"error"}

\* C9: cleaning is idempotent: coercing an already coerced value of a
\* percentage column or of the cost column again returns that same value.
C9_Idempotent ==
    (app = 1 /\ pc = "widgets") =>
        \A i \in Labels(df) :
            /\ "Four Year Cost" \in df.columns =>
                  safe_float(Cell(i, "Four Year Cost")) = Cell(i, "Four Year Cost")
            /\ \A c \in {"Admission Rate", "Graduation Rate", "Yield Rate"} \cap df.columns :
                  convert_percentage(Cell(i, c)) = Cell(i, c)

\* C10: the range handed to the earnings-ratio control, derived or default,
\* has a lower bound that does not exceed its upper bound.
C10_RangeWellFormed ==
    (app = 1 /\ (pc \in {"filter", "show", "done"} \/ err.at \in {"slider", "filter", "display"}))
        => ratio_range[1] <= ratio_range[2]

====
